---- MODULE Spec2Model ----
(***************************************************************************)
(* blake2sp_hash (c_src/blake2sp.c): the BLAKE2sp tree construction, eight *)
(* BLAKE2s leaf lanes over a block-strided partition of the message and a  *)
(* root that absorbs the eight lane digests.                               *)
(*                                                                         *)
(* The BLAKE2s primitive (blake2s_init_param, blake2s_update,              *)
(* blake2s_final) lives outside blake2sp.c.  A hash state is modelled by   *)
(* what determines its digest: the parameter block it was initialised      *)
(* from, its last_node flag and the log of updates it absorbed.  A digest  *)
(* is the record of those three and of the requested length, so two        *)
(* digests are equal exactly when they were computed from the same data.   *)
(* A message byte is identified by its offset in the message.              *)
(***************************************************************************)
EXTENDS Integers, Sequences, FiniteSets, TLC

(* ------------------------------------------------------------------ *)
(* Program constants                                                   *)
(* ------------------------------------------------------------------ *)
PARALLELISM_DEGREE == 8

BLAKE2S_BLOCKBYTES == 64

BLAKE2S_OUTBYTES == 32

BLAKE2S_KEYBYTES == 32

BLAKE2S_SALTBYTES == 8

BLAKE2S_PERSONALBYTES == 8

Lanes == 0 .. (PARALLELISM_DEGREE - 1)

(* ------------------------------------------------------------------ *)
(* Bounds of the exploration                                           *)
(* ------------------------------------------------------------------ *)
\* The longest messages of whole calls hold MaxBlocks whole blocks plus a short tail.
MaxBlocks == 9

\* The lane body alone is explored for every message length up to MaxLen.
MaxLen == 1100

\* Tail lengths tried after the whole blocks of a message.
TailLens == {0, 1}

InputLens == {BLAKE2S_BLOCKBYTES * b + r : b \in 0 .. MaxBlocks, r \in TailLens}

OutLens == {0, 1, 32, 33, 257}

KeyLens == {0, 1, 32, 33}

SaltLens == {0, 3, 8, 256}

PersonalLens == {0, 5, 256}

\* Values of the memory that follows a salt or personalization buffer.
SlackBytes == {0, 170}

Builds == {"seq", "omp"}

\* The OpenMP build interleaves the lanes; it is explored on these messages,
\* keys and digest lengths, without salt and personalization.
OmpInputLens == {0, 577}

OmpKeyLens == {0, 32}

OmpOutLens == {0, 32}

(* ------------------------------------------------------------------ *)
(* Caller data                                                         *)
(* ------------------------------------------------------------------ *)
\* Byte j (from 0) of the key, salt and personalization binaries: all nonzero.
KeyByte(j) == 1 + (j % 100)

SaltByte(j) == 101 + (j % 50)

PersonalByte(j) == 201 + (j % 50)

Zeros(n) == [j \in 1 .. n |-> 0]

\* Conversion of a length to the uint8_t parameter of the init functions.
U8(x) == x % 256

(* ------------------------------------------------------------------ *)
(* State                                                               *)
(* ------------------------------------------------------------------ *)
VARIABLES
    build,          \* "omp" when compiled with _OPENMP, else "seq"
    wellTyped,      \* argc = 5 and every argument has the type the NIF inspects
    input_size,     \* input.size
    key_size,       \* key.size
    outlen,         \* unsigned int outlen
    salt_size,      \* salt.size
    personal_size,  \* personal.size
    salt_slack,     \* value of the bytes that follow salt.data[salt.size - 1]
    personal_slack, \* value of the bytes that follow personal.data[personal.size - 1]
    pc,             \* position of the calling thread in blake2sp_hash
    i,              \* loop counter of the loops at lines 101, 114 and 156
    S,              \* blake2s_state S[PARALLELISM_DEGREE][1]
    hash,           \* uint8_t hash[PARALLELISM_DEGREE][BLAKE2S_OUTBYTES]
    FS,             \* blake2s_state FS[1]
    out,            \* uint8_t out[BLAKE2S_OUTBYTES]
    block,          \* uint8_t block[BLAKE2S_BLOCKBYTES]; <<>> outside its scope
    result,         \* the term blake2sp_hash returns
    id__,           \* loop counter of the sequential lane loop (line 124)
    nthreads,       \* size of the team that runs the parallel region (line 121)
    lpc,            \* position of each lane in the lane body
    inlen__,        \* each lane's inlen__
    in__            \* each lane's in__, as an offset from input.data

args == <<build, wellTyped, input_size, key_size, outlen, salt_size, personal_size,
          salt_slack, personal_slack>>

vars == <<build, wellTyped, input_size, key_size, outlen, salt_size, personal_size,
          salt_slack, personal_slack, pc, i, S, hash, FS, out, block, result,
          id__, nthreads, lpc, inlen__, in__>>

(* ------------------------------------------------------------------ *)
(* The BLAKE2s primitive, as blake2sp.c uses it                        *)
(* ------------------------------------------------------------------ *)
NoParam ==
    [digest_length |-> 0, key_length |-> 0, fanout |-> 0, depth |-> 0,
     leaf_length |-> 0, node_offset |-> 0, node_depth |-> 0, inner_length |-> 0,
     salt |-> <<>>, personal |-> <<>>]

\* A blake2s_state that no init has written.
NoState == [init |-> FALSE, P |-> NoParam, last_node |-> FALSE, log |-> <<>>, fin |-> 0]

\* The primitive rejects a malformed parameter block.
ParamOk(P) ==
    /\ P.digest_length \in 1 .. BLAKE2S_OUTBYTES
    /\ P.key_length \in 0 .. BLAKE2S_KEYBYTES

blake2s_init_param(P) ==
    IF ParamOk(P)
    THEN [rc |-> 0,
          S |-> [init |-> TRUE, P |-> P, last_node |-> FALSE, log |-> <<>>, fin |-> 0]]
    ELSE [rc |-> -1, S |-> NoState]

\* blake2s_update( S, in, len ): the state absorbs one more piece of data.
blake2s_update(st, piece) == [st EXCEPT !.log = Append(@, piece)]

\* The bytes a state has absorbed: updates of length 0 add nothing.
Stream(log) == SelectSeq(log, LAMBDA piece : piece.len > 0)

\* blake2s_final( S, out, n ): the n-byte digest of everything the state absorbed.
Digest(st, n) ==
    [tag |-> "H", P |-> st.P, last_node |-> st.last_node, stream |-> Stream(st.log), n |-> n]

\* The content of a digest buffer that nothing has written.
Indeterminate == {[tag |-> t, P |-> NoParam, last_node |-> FALSE, stream |-> <<>>, n |-> 0] :
                    t \in {"garbage0", "garbage1"}}

NoDigest == [tag |-> "none", P |-> NoParam, last_node |-> FALSE, stream |-> <<>>, n |-> 0]

(* ------------------------------------------------------------------ *)
(* Parameter blocks (blake2sp_init_leaf, blake2sp_init_root)           *)
(* ------------------------------------------------------------------ *)
\* memcpy( P->salt, salt, BLAKE2S_SALTBYTES ) reads BLAKE2S_SALTBYTES bytes from
\* salt.data: the salt.size bytes of the binary, then the memory that follows it.
SaltField(saltlen) ==
    IF saltlen # 0
    THEN [j \in 1 .. BLAKE2S_SALTBYTES |->
            IF j <= salt_size THEN SaltByte(j - 1) ELSE salt_slack]
    ELSE Zeros(BLAKE2S_SALTBYTES)

PersonalField(personallen) ==
    IF personallen # 0
    THEN [j \in 1 .. BLAKE2S_PERSONALBYTES |->
            IF j <= personal_size THEN PersonalByte(j - 1) ELSE personal_slack]
    ELSE Zeros(BLAKE2S_PERSONALBYTES)

\* LeafParam with the lane index left out of the block.
LeafParamNoOffset(outlen_, keylen, offset, saltlen, personallen) ==
    [digest_length |-> outlen_,
     key_length    |-> keylen,
     fanout        |-> PARALLELISM_DEGREE,
     depth         |-> 2,
     leaf_length   |-> 0,
     node_offset   |-> 0,
     node_depth    |-> 0,
     inner_length  |-> BLAKE2S_OUTBYTES,
     salt          |-> SaltField(saltlen),
     personal      |-> PersonalField(personallen)]

LeafParam(outlen_, keylen, offset, saltlen, personallen) ==
    [digest_length |-> outlen_,
     key_length    |-> keylen,
     fanout        |-> PARALLELISM_DEGREE,
     depth         |-> 2,
     leaf_length   |-> 0,
     node_offset   |-> offset,
     node_depth    |-> 0,
     inner_length  |-> BLAKE2S_OUTBYTES,
     salt          |-> SaltField(saltlen),
     personal      |-> PersonalField(personallen)]

RootParam(outlen_, keylen, saltlen, personallen) ==
    [digest_length |-> outlen_,
     key_length    |-> keylen,
     fanout        |-> PARALLELISM_DEGREE,
     depth         |-> 2,
     leaf_length   |-> 0,
     node_offset   |-> 0,
     node_depth    |-> 1,
     inner_length  |-> BLAKE2S_OUTBYTES,
     salt          |-> SaltField(saltlen),
     personal      |-> PersonalField(personallen)]

\* The lengths arrive as uint8_t.
blake2sp_init_leaf(outlen_, keylen, offset, saltlen, personallen) ==
    blake2s_init_param(LeafParam(U8(outlen_), U8(keylen), offset, U8(saltlen), U8(personallen)))

blake2sp_init_root(outlen_, keylen, saltlen, personallen) ==
    blake2s_init_param(RootParam(U8(outlen_), U8(keylen), U8(saltlen), U8(personallen)))

(* ------------------------------------------------------------------ *)
(* Initial states: one call of blake2sp_hash                           *)
(* ------------------------------------------------------------------ *)
NoResult == [tag |-> "none", list |-> <<>>, of |-> NoDigest]

\* The calls explored.  The memory after a buffer matters only when memcpy reads it.
Explored ==
    /\ build = "seq" => input_size \in InputLens
    /\ build = "omp" =>
          /\ input_size \in OmpInputLens
          /\ key_size \in OmpKeyLens
          /\ outlen \in OmpOutLens
          /\ salt_size = 0
          /\ personal_size = 0
    /\ salt_size > BLAKE2S_SALTBYTES => (input_size = 0 /\ personal_size = 0)
    /\ personal_size > BLAKE2S_PERSONALBYTES => (input_size = 0 /\ salt_size = 0)
    /\ salt_size \notin 1 .. (BLAKE2S_SALTBYTES - 1) => salt_slack = 0
    /\ personal_size \notin 1 .. (BLAKE2S_PERSONALBYTES - 1) => personal_slack = 0
    /\ ~wellTyped =>
          /\ input_size = 0
          /\ key_size = 0
          /\ outlen = 0
          /\ salt_size = 0
          /\ personal_size = 0

Init ==
    /\ build \in Builds
    /\ wellTyped \in BOOLEAN
    /\ input_size \in InputLens \cup OmpInputLens
    /\ key_size \in KeyLens
    /\ outlen \in OutLens
    /\ salt_size \in SaltLens
    /\ personal_size \in PersonalLens
    /\ salt_slack \in SlackBytes
    /\ personal_slack \in SlackBytes
    /\ Explored
    /\ pc = "entry"
    /\ i = 0
    /\ S = [l \in Lanes |-> NoState]
    /\ hash = [l \in Lanes |-> NoDigest]
    /\ FS = NoState
    /\ out = [bytes |-> Zeros(BLAKE2S_OUTBYTES), of |-> NoDigest]
    /\ block = <<>>
    /\ result = NoResult
    /\ id__ = 0
    /\ nthreads = 0
    /\ lpc = [l \in Lanes |-> "idle"]
    /\ inlen__ = [l \in Lanes |-> 0]
    /\ in__ = [l \in Lanes |-> 0]

\* return <term>
Return(term) ==
    /\ result' = term
    /\ pc' = "done"

ErrorTerm == [tag |-> "error", list |-> <<>>, of |-> NoDigest]

BadargTerm == [tag |-> "badarg", list |-> <<>>, of |-> NoDigest]

(* ------------------------------------------------------------------ *)
(* blake2sp_hash, up to the lanes (lines 91-118)                       *)
(* ------------------------------------------------------------------ *)
\* Lines 91-96: argument count and types.
ParseArgs ==
    /\ pc = "entry"
    /\ IF wellTyped
       THEN /\ pc' = "check"
            /\ UNCHANGED result
       ELSE Return(BadargTerm)
    /\ UNCHANGED <<args, i, S, hash, FS, out, block, id__, nthreads, lpc, inlen__, in__>>

\* BadLengths with outlen held in a uint8_t before it is checked.
BadLengthsNarrowed ==
    \/ U8(outlen) = 0
    \/ U8(outlen) > BLAKE2S_OUTBYTES
    \/ key_size > BLAKE2S_KEYBYTES

\* Lines 98-99: the conditions under which the call is refused.
BadLengths ==
    \/ outlen = 0
    \/ outlen > BLAKE2S_OUTBYTES
    \/ key_size > BLAKE2S_KEYBYTES

CheckArgs ==
    /\ pc = "check"
    /\ IF BadLengths
       THEN /\ Return(ErrorTerm)
            /\ UNCHANGED i
       ELSE /\ pc' = "init_leaf"
            /\ i' = 0
            /\ UNCHANGED result
    /\ UNCHANGED <<args, S, hash, FS, out, block, id__, nthreads, lpc, inlen__, in__>>

\* Lines 101-104: one iteration of the loop that initialises the leaf states.
InitLeaf ==
    /\ pc = "init_leaf"
    /\ LET r == blake2sp_init_leaf(outlen, key_size, i, salt_size, personal_size)
       IN  IF r.rc < 0
           THEN /\ Return(ErrorTerm)
                /\ UNCHANGED <<i, S>>
           ELSE /\ S' = [S EXCEPT ![i] = r.S]
                /\ i' = i + 1
                /\ pc' = IF i + 1 < PARALLELISM_DEGREE THEN "init_leaf" ELSE "mark_last"
                /\ UNCHANGED result
    /\ UNCHANGED <<args, hash, FS, out, block, id__, nthreads, lpc, inlen__, in__>>

\* LastLeaf off by one.
LastLeafOffByOne == PARALLELISM_DEGREE - 2

\* Line 106: the lane that carries the last-node flag.
LastLeaf == PARALLELISM_DEGREE - 1

MarkLastLeaf ==
    /\ pc = "mark_last"
    /\ S' = [S EXCEPT ![LastLeaf].last_node = TRUE]
    /\ pc' = IF key_size > 0 THEN "key_fill" ELSE "lanes"
    /\ UNCHANGED <<args, i, hash, FS, out, block, result, id__, nthreads, lpc, inlen__, in__>>

\* KeyBlock without the memset: the bytes after the key keep what the stack held.
KeyBlockNoMemset ==
    [j \in 1 .. BLAKE2S_BLOCKBYTES |-> IF j <= key_size THEN KeyByte(j - 1) ELSE 170]

\* Lines 111-112: memset( block, 0, 64 ); memcpy( block, key.data, key.size ).
KeyBlock ==
    [j \in 1 .. BLAKE2S_BLOCKBYTES |-> IF j <= key_size THEN KeyByte(j - 1) ELSE 0]

KeyFill ==
    /\ pc = "key_fill"
    /\ block' = KeyBlock
    /\ i' = 0
    /\ pc' = "key_update"
    /\ UNCHANGED <<args, S, hash, FS, out, result, id__, nthreads, lpc, inlen__, in__>>

\* A piece of data handed to blake2s_update by a lane.
BlockPiece == [src |-> "block", off |-> 0, len |-> BLAKE2S_BLOCKBYTES, bytes |-> block]

InputPiece(off, len) == [src |-> "input", off |-> off, len |-> len, bytes |-> <<>>]

\* Lines 114-115: one iteration of the loop that feeds the key block to the lanes.
KeyUpdate ==
    /\ pc = "key_update"
    /\ S' = [S EXCEPT ![i] = blake2s_update(@, BlockPiece)]
    /\ i' = i + 1
    /\ pc' = IF i + 1 < PARALLELISM_DEGREE THEN "key_update" ELSE "key_burn"
    /\ UNCHANGED <<args, hash, FS, out, block, result, id__, nthreads, lpc, inlen__, in__>>

\* Line 117: secure_zero_memory( block, BLAKE2S_BLOCKBYTES ).
BurnedBlock == Zeros(BLAKE2S_BLOCKBYTES)

\* KeyBurn with the call of secure_zero_memory left out.
KeyBurnSkipped ==
    /\ pc = "key_burn"
    /\ pc' = "lanes"
    /\ UNCHANGED <<args, i, S, hash, FS, out, block, result, id__, nthreads, lpc, inlen__, in__>>

\* Lines 117-118: the key block is burned and its scope ends.
KeyBurn ==
    /\ pc = "key_burn"
    /\ block' = BurnedBlock
    /\ pc' = "lanes"
    /\ UNCHANGED <<args, i, S, hash, FS, out, result, id__, nthreads, lpc, inlen__, in__>>

(* ------------------------------------------------------------------ *)
(* The lane body (lines 120-149)                                       *)
(* ------------------------------------------------------------------ *)
\* FirstOffset with every lane starting at the first byte of the message.
FirstOffsetUnshifted(id) == 0

\* Line 132: in__ += id__ * BLAKE2S_BLOCKBYTES.
FirstOffset(id) == id * BLAKE2S_BLOCKBYTES

\* Lines 137-138: the distance between two blocks of one lane.
Stride == PARALLELISM_DEGREE * BLAKE2S_BLOCKBYTES

\* Line 134: the condition of the while loop.
MoreStripes(n) == n >= Stride

\* HasTail with the lane whose block starts at the end of the rest included.
HasTailInclusive(n, id) == n >= id * BLAKE2S_BLOCKBYTES

\* Line 141: the lane has bytes in what remains.
HasTail(n, id) == n > id * BLAKE2S_BLOCKBYTES

\* TailLen without the cap of one block.
TailLenUncapped(n, id) == n - id * BLAKE2S_BLOCKBYTES

\* Lines 143-144: left and len.
TailLen(n, id) ==
    LET left == n - id * BLAKE2S_BLOCKBYTES
    IN  IF left <= BLAKE2S_BLOCKBYTES THEN left ELSE BLAKE2S_BLOCKBYTES

\* Lines 130-132 for the lanes in `ids`: the locals of the lane body.
EnterLanes(ids) ==
    /\ inlen__' = [l \in Lanes |-> IF l \in ids THEN input_size ELSE inlen__[l]]
    /\ in__' = [l \in Lanes |-> IF l \in ids THEN FirstOffset(l) ELSE in__[l]]
    /\ lpc' = [l \in Lanes |-> IF l \in ids THEN "absorb" ELSE lpc[l]]

\* Line 124, sequential build: the loop enters the body with the next id__.
SeqLaneEnter ==
    /\ build = "seq"
    /\ pc = "lanes"
    /\ id__ < PARALLELISM_DEGREE
    /\ lpc[id__] = "idle"
    /\ EnterLanes({id__})
    /\ UNCHANGED <<args, pc, i, S, hash, FS, out, block, result, id__, nthreads>>

\* Line 121: num_threads(PARALLELISM_DEGREE) requests a team of 8; the runtime
\* decides the size of the team, at least the encountering thread.
TeamSizes == 1 .. PARALLELISM_DEGREE

\* Lines 121 and 128: the region starts, thread t of the team runs the body as
\* lane omp_get_thread_num() = t.
OmpFork ==
    /\ build = "omp"
    /\ pc = "lanes"
    /\ \E n \in TeamSizes :
          /\ nthreads' = n
          /\ EnterLanes(0 .. (n - 1))
    /\ pc' = "region"
    /\ UNCHANGED <<args, i, S, hash, FS, out, block, result, id__>>

\* Lines 134-139: one iteration of the while loop of lane l.
LaneStripe(l) ==
    /\ lpc[l] = "absorb"
    /\ MoreStripes(inlen__[l])
    /\ S' = [S EXCEPT ![l] = blake2s_update(@, InputPiece(in__[l], BLAKE2S_BLOCKBYTES))]
    /\ in__' = [in__ EXCEPT ![l] = @ + Stride]
    /\ inlen__' = [inlen__ EXCEPT ![l] = @ - Stride]
    /\ UNCHANGED <<args, pc, i, hash, FS, out, block, result, id__, nthreads, lpc>>

\* Lines 134 and 141-146: the loop ends, and the lane absorbs its part of the rest.
LaneTail(l) ==
    /\ lpc[l] = "absorb"
    /\ ~MoreStripes(inlen__[l])
    /\ IF HasTail(inlen__[l], l)
       THEN S' = [S EXCEPT ![l] = blake2s_update(@, InputPiece(in__[l], TailLen(inlen__[l], l)))]
       ELSE UNCHANGED S
    /\ lpc' = [lpc EXCEPT ![l] = "final"]
    /\ UNCHANGED <<args, pc, i, hash, FS, out, block, result, id__, nthreads, inlen__, in__>>

\* LeafDigestLen with the lane digest cut to the caller's outlen.
LeafDigestLenTruncated == outlen

\* Line 148: the length of a lane digest.
LeafDigestLen == BLAKE2S_OUTBYTES

\* LaneFinal with every lane writing its digest to hash[0].
LaneFinalSharedBuffer(l) ==
    /\ lpc[l] = "final"
    /\ hash' = [hash EXCEPT ![0] = Digest(S[l], LeafDigestLen)]
    /\ S' = [S EXCEPT ![l].fin = @ + 1]
    /\ lpc' = [lpc EXCEPT ![l] = "done"]
    /\ IF build = "seq"
       THEN /\ id__' = id__ + 1
            /\ pc' = IF id__ + 1 < PARALLELISM_DEGREE THEN "lanes" ELSE "init_root"
       ELSE UNCHANGED <<id__, pc>>
    /\ UNCHANGED <<args, i, FS, out, block, result, nthreads, inlen__, in__>>

\* Line 148, and in the sequential build the loop's ++id__ and test (line 124).
LaneFinal(l) ==
    /\ lpc[l] = "final"
    /\ hash' = [hash EXCEPT ![l] = Digest(S[l], LeafDigestLen)]
    /\ S' = [S EXCEPT ![l].fin = @ + 1]
    /\ lpc' = [lpc EXCEPT ![l] = "done"]
    /\ IF build = "seq"
       THEN /\ id__' = id__ + 1
            /\ pc' = IF id__ + 1 < PARALLELISM_DEGREE THEN "lanes" ELSE "init_root"
       ELSE UNCHANGED <<id__, pc>>
    /\ UNCHANGED <<args, i, FS, out, block, result, nthreads, inlen__, in__>>

\* Line 149, OpenMP build: the barrier that ends the parallel region.
OmpJoin ==
    /\ pc = "region"
    /\ \A l \in 0 .. (nthreads - 1) : lpc[l] = "done"
    /\ pc' = "init_root"
    /\ UNCHANGED <<args, i, S, hash, FS, out, block, result, id__, nthreads, lpc, inlen__, in__>>

(* ------------------------------------------------------------------ *)
(* The root (lines 151-165)                                            *)
(* ------------------------------------------------------------------ *)
\* Lines 151-152.
InitRoot ==
    /\ pc = "init_root"
    /\ LET r == blake2sp_init_root(outlen, key_size, salt_size, personal_size)
       IN  IF r.rc < 0
           THEN /\ Return(ErrorTerm)
                /\ UNCHANGED FS
           ELSE /\ FS' = r.S
                /\ pc' = "root_mark"
                /\ UNCHANGED result
    /\ UNCHANGED <<args, i, S, hash, out, block, id__, nthreads, lpc, inlen__, in__>>

\* Line 154, and the initialisation of the loop at line 156.
MarkLastRoot ==
    /\ pc = "root_mark"
    /\ FS' = [FS EXCEPT !.last_node = TRUE]
    /\ i' = 0
    /\ pc' = "root_update"
    /\ UNCHANGED <<args, S, hash, out, block, result, id__, nthreads, lpc, inlen__, in__>>

\* What a read of hash[l] can return: what its lane wrote, or, of a buffer that
\* nothing wrote, an indeterminate value.
HashRead(l) == IF hash[l].tag = "none" THEN Indeterminate ELSE {hash[l]}

HashPiece(l, v) == [src |-> "hash", off |-> l, len |-> BLAKE2S_OUTBYTES, val |-> v]

\* Lines 156-157: one iteration of the loop that feeds the lane digests to the root.
RootUpdate ==
    /\ pc = "root_update"
    /\ \E v \in HashRead(i) : FS' = blake2s_update(FS, HashPiece(i, v))
    /\ i' = i + 1
    /\ pc' = IF i + 1 < PARALLELISM_DEGREE THEN "root_update" ELSE "root_final"
    /\ UNCHANGED <<args, S, hash, out, block, result, id__, nthreads, lpc, inlen__, in__>>

\* Line 159: blake2s_final( FS, out, outlen ) writes the first outlen bytes of out.
\* Byte j of the digest is written as j; the bytes after it keep their value.
RootFinal ==
    /\ pc = "root_final"
    /\ out' = [bytes |-> [j \in 1 .. BLAKE2S_OUTBYTES |->
                            IF j <= outlen THEN j ELSE out.bytes[j]],
               of |-> Digest(FS, outlen)]
    /\ FS' = [FS EXCEPT !.fin = @ + 1]
    /\ pc' = "make_list"
    /\ UNCHANGED <<args, i, S, hash, block, result, id__, nthreads, lpc, inlen__, in__>>

\* ListTerm with the whole of out returned.
ListTermWholeBuffer ==
    [tag |-> "list", list |-> [j \in 1 .. BLAKE2S_OUTBYTES |-> out.bytes[j]], of |-> out.of]

\* Lines 161-165: tmphash[0 .. outlen-1] from out, and the list of its first
\* outlen elements.
ListTerm == [tag |-> "list", list |-> [j \in 1 .. outlen |-> out.bytes[j]], of |-> out.of]

MakeList ==
    /\ pc = "make_list"
    /\ Return(ListTerm)
    /\ UNCHANGED <<args, i, S, hash, FS, out, block, id__, nthreads, lpc, inlen__, in__>>

Next ==
    \/ ParseArgs
    \/ CheckArgs
    \/ InitLeaf
    \/ MarkLastLeaf
    \/ KeyFill
    \/ KeyUpdate
    \/ KeyBurn
    \/ SeqLaneEnter
    \/ OmpFork
    \/ \E l \in Lanes : LaneStripe(l)
    \/ \E l \in Lanes : LaneTail(l)
    \/ \E l \in Lanes : LaneFinal(l)
    \/ OmpJoin
    \/ InitRoot
    \/ MarkLastRoot
    \/ RootUpdate
    \/ RootFinal
    \/ MakeList

Spec == Init /\ [][Next]_vars

(* ------------------------------------------------------------------ *)
(* The lane body on its own: every lane index on every message length  *)
(* ------------------------------------------------------------------ *)
\* The state in which an unkeyed call of the sequential build with a 32-byte
\* digest and no salt or personalization enters the lane loop.
InitLanes ==
    /\ build = "seq"
    /\ wellTyped = TRUE
    /\ input_size \in 0 .. MaxLen
    /\ key_size = 0
    /\ outlen = BLAKE2S_OUTBYTES
    /\ salt_size = 0
    /\ personal_size = 0
    /\ salt_slack = 0
    /\ personal_slack = 0
    /\ pc = "lanes"
    /\ i = PARALLELISM_DEGREE
    /\ S = [l \in Lanes |->
              [blake2sp_init_leaf(BLAKE2S_OUTBYTES, 0, l, 0, 0).S
                 EXCEPT !.last_node = (l = LastLeaf)]]
    /\ hash = [l \in Lanes |-> NoDigest]
    /\ FS = NoState
    /\ out = [bytes |-> Zeros(BLAKE2S_OUTBYTES), of |-> NoDigest]
    /\ block = <<>>
    /\ result = NoResult
    /\ id__ = 0
    /\ nthreads = 0
    /\ lpc = [l \in Lanes |-> "idle"]
    /\ inlen__ = [l \in Lanes |-> 0]
    /\ in__ = [l \in Lanes |-> 0]

NextLanes ==
    \/ SeqLaneEnter
    \/ \E l \in Lanes : LaneStripe(l)
    \/ \E l \in Lanes : LaneTail(l)
    \/ \E l \in Lanes : LaneFinal(l)

SpecLanes == InitLanes /\ [][NextLanes]_vars

(* ------------------------------------------------------------------ *)
(* Properties                                                          *)
(* ------------------------------------------------------------------ *)
ValidLengths ==
    /\ wellTyped
    /\ outlen \in 1 .. 32
    /\ key_size \in 0 .. 32

Returned == pc = "done"

\* C1: a call with outlen in 1..32 and a key of 0..32 bytes, whatever the input
\* length, succeeds, and the list it returns has exactly outlen elements: bytes
\* 1..outlen, in order, of the digest the root was finalized to.
C1_ReturnsOutlenBytes ==
    (Returned /\ ValidLengths) =>
        /\ result.tag = "list"
        /\ Len(result.list) = outlen
        /\ \A j \in 1 .. outlen : result.list[j] = j
        /\ result.of = Digest(FS, outlen)
        /\ FS.fin = 1

C1_Witness ==
    /\ Returned
    /\ ValidLengths
    /\ outlen = 1
    /\ key_size = 32
    /\ input_size > Stride
    /\ result.tag = "list"
    /\ Len(result.list) = 1

\* C2: when outlen is 0 or above 32, or the key is longer than 32 bytes, the call
\* returns the error outcome from the argument check: at no point of the call has a
\* leaf or the root state been initialised, updated or finalized, a digest buffer
\* or out been written, a key block been built, or a lane been started, and no
\* list is returned.
C2_RefusedBeforeLaneWork ==
    (wellTyped /\ (outlen = 0 \/ outlen > 32 \/ key_size > 32)) =>
        /\ pc \in {"entry", "check", "done"}
        /\ \A l \in Lanes : S[l] = NoState /\ hash[l] = NoDigest /\ lpc[l] = "idle"
        /\ FS = NoState
        /\ out.of = NoDigest
        /\ \A j \in 1 .. BLAKE2S_OUTBYTES : out.bytes[j] = 0
        /\ block = <<>>
        /\ Returned => result = ErrorTerm

C2_Witness ==
    /\ Returned
    /\ wellTyped
    /\ outlen = 257
    /\ key_size = 32
    /\ result.tag = "error"

(* ------------------------------------------------------------------ *)
(* What the construction prescribes, computed from the arguments alone *)
(* ------------------------------------------------------------------ *)
Min(a, b) == IF a <= b THEN a ELSE b

\* The blocks of a message of L bytes that belong to lane l.
BlocksOf(L, l) ==
    {k \in 0 .. (L \div BLAKE2S_BLOCKBYTES) :
        k % PARALLELISM_DEGREE = l /\ BLAKE2S_BLOCKBYTES * k < L}

\* The byte ranges [64k, min(64(k+1), L)) of those blocks, in increasing k.
StridedRanges(L, l) ==
    [j \in 1 .. Cardinality(BlocksOf(L, l)) |->
        LET k == l + PARALLELISM_DEGREE * (j - 1)
        IN  [off |-> BLAKE2S_BLOCKBYTES * k,
             len |-> Min(BLAKE2S_BLOCKBYTES * (k + 1), L) - BLAKE2S_BLOCKBYTES * k]]

\* The ranges of the message a state has absorbed, in the order absorbed.
InputPieces(log) == SelectSeq(log, LAMBDA piece : piece.src = "input" /\ piece.len > 0)

InputRanges(log) ==
    [j \in 1 .. Len(InputPieces(log)) |->
        [off |-> InputPieces(log)[j].off, len |-> InputPieces(log)[j].len]]

IsPrefix(a, b) == Len(a) <= Len(b) /\ \A j \in 1 .. Len(a) : a[j] = b[j]

\* size bytes of a caller buffer followed by zero bytes up to n.
Padded(ByteOf(_), size, n) == [j \in 1 .. n |-> IF j <= size THEN ByteOf(j - 1) ELSE 0]

\* The updates lane l absorbs: the key block when keyed, then its ranges.
RefLeafLog(l) ==
    (IF key_size > 0
     THEN <<[src |-> "block", off |-> 0, len |-> BLAKE2S_BLOCKBYTES,
             bytes |-> Padded(KeyByte, key_size, BLAKE2S_BLOCKBYTES)]>>
     ELSE <<>>)
    \o [j \in 1 .. Len(StridedRanges(input_size, l)) |->
          [src |-> "input", off |-> StridedRanges(input_size, l)[j].off,
           len |-> StridedRanges(input_size, l)[j].len, bytes |-> <<>>]]

\* The digest of lane l when the lanes run one after the other.
RefLeafDigest(l) ==
    [tag |-> "H",
     P |-> LeafParam(U8(outlen), U8(key_size), l, U8(salt_size), U8(personal_size)),
     last_node |-> (l = PARALLELISM_DEGREE - 1),
     stream |-> RefLeafLog(l),
     n |-> BLAKE2S_OUTBYTES]

RefRootLog ==
    [j \in 1 .. PARALLELISM_DEGREE |->
        [src |-> "hash", off |-> j - 1, len |-> BLAKE2S_OUTBYTES, val |-> RefLeafDigest(j - 1)]]

RefDigest ==
    [tag |-> "H",
     P |-> RootParam(U8(outlen), U8(key_size), U8(salt_size), U8(personal_size)),
     last_node |-> TRUE,
     stream |-> RefRootLog,
     n |-> outlen]

RootPhase == pc \in {"init_root", "root_mark", "root_update", "root_final", "make_list"}

\* C3: whatever the build and the interleaving of the lanes, when the call
\* returns a digest every lane has absorbed the byte sequence it absorbs in the
\* sequential loop, the root has received the 8 lane digests of that loop, and
\* the digest returned is the one that loop yields.
C3_DeterministicUnderScheduling ==
    (Returned /\ result.tag = "list") =>
        /\ \A l \in Lanes : Stream(S[l].log) = RefLeafLog(l)
        /\ FS.log = RefRootLog
        /\ result.of = RefDigest

C5_FullBarrier ==
    /\ \A l \in Lanes : S[l].fin <= 1
    /\ (RootPhase \/ FS.init) =>
          \A l \in Lanes : S[l].fin = 1 /\ hash[l].tag = "H"
    /\ \A j \in 1 .. Len(FS.log) : FS.log[j].val.tag = "H"

\* C6: the root absorbs exactly 8 updates and nothing else: update l+1 is the
\* 32-byte digest of lane l, read from hash[l], for l = 0..7 in this order; in
\* keyed mode too, while its parameter block records the key length.
C6_RootAbsorbsLaneDigests ==
    LET want == [j \in 1 .. PARALLELISM_DEGREE |->
                    [src |-> "hash", off |-> j - 1, len |-> BLAKE2S_OUTBYTES,
                     val |-> Digest(S[j - 1], BLAKE2S_OUTBYTES)]]
    IN  /\ FS.init => IsPrefix(FS.log, want)
        /\ (FS.init /\ FS.fin > 0) => FS.log = want
        /\ FS.init => FS.P.key_length = key_size

\* C7: with a key of 1..32 bytes, the first update of each of the 8 lane states
\* is one 64-byte block holding the key bytes followed by zero bytes, every later
\* update is of message bytes, and all 8 lanes have absorbed that block before a
\* lane starts; with no key, no lane absorbs a block.
C7_KeyBlockFirst ==
    \A l \in Lanes :
        /\ \A j \in 2 .. Len(S[l].log) : S[l].log[j].src = "input"
        /\ key_size = 0 => \A j \in 1 .. Len(S[l].log) : S[l].log[j].src = "input"
        /\ (key_size \in 1 .. 32 /\ Len(S[l].log) > 0) =>
              S[l].log[1] = [src |-> "block", off |-> 0, len |-> 64,
                             bytes |-> Padded(KeyByte, key_size, 64)]
        /\ (key_size \in 1 .. 32 /\ (\E m \in Lanes : lpc[m] # "idle")) =>
              Len(S[l].log) > 0

C7_Witness ==
    /\ key_size = 1
    /\ lpc[1] = "done"
    /\ Len(S[1].log) = 2
    /\ S[1].log[1].src = "block"
    /\ S[1].log[1].bytes[1] = KeyByte(0)
    /\ S[1].log[1].bytes[2] = 0
    /\ S[1].log[2].src = "input"

\* C8: once the key block has been filled, it holds key bytes only until the
\* last lane has absorbed it: it is all zero when the first message byte is
\* absorbed, in every later state, and when the call returns.
C8_KeyBlockErased ==
    LET burned == block = [j \in 1 .. 64 |-> 0]
    IN  /\ (Returned /\ block # <<>>) => burned
        /\ (block # <<>> /\ pc \notin {"key_update", "key_burn"}) => burned
        /\ (\E l \in Lanes : InputPieces(S[l].log) # <<>> \/ lpc[l] # "idle") =>
              (block = <<>> \/ burned)
        /\ (pc = "key_update" /\ key_size > 0) => ~burned

C8_Witness ==
    /\ Returned
    /\ result.tag = "list"
    /\ key_size = 32
    /\ input_size > 0
    /\ block = [j \in 1 .. 64 |-> 0]
    /\ \A l \in Lanes : S[l].log[1].bytes[32] = KeyByte(31)

\* C9: for a salt of 0..8 bytes and a personalization of 0..8 bytes, the salt and
\* personalization fields of every leaf parameter block and of the root parameter
\* block hold the caller's bytes followed by zero bytes up to 8.
C9_SaltPersonalZeroPadded ==
    LET good(P) ==
            /\ P.salt = Padded(SaltByte, salt_size, 8)
            /\ P.personal = Padded(PersonalByte, personal_size, 8)
    IN  (salt_size \in 0 .. 8 /\ personal_size \in 0 .. 8) =>
            /\ \A l \in Lanes : S[l].init => good(S[l].P)
            /\ FS.init => good(FS.P)

\* C10: a call with an empty message and valid lengths returns a list of outlen
\* elements; all 8 lanes were initialised and finalized once, having absorbed no
\* message byte (only the key block when keyed), and the root absorbed the 8 lane
\* digests.
C10_EmptyInput ==
    (Returned /\ ValidLengths /\ input_size = 0) =>
        /\ result.tag = "list"
        /\ Len(result.list) = outlen
        /\ \A l \in Lanes :
              /\ S[l].init
              /\ S[l].fin = 1
              /\ InputPieces(S[l].log) = <<>>
              /\ Len(S[l].log) = (IF key_size > 0 THEN 1 ELSE 0)
              /\ hash[l] = Digest(S[l], BLAKE2S_OUTBYTES)
        /\ Len(FS.log) = PARALLELISM_DEGREE
        /\ \A l \in Lanes : FS.log[l + 1].val = Digest(S[l], BLAKE2S_OUTBYTES)

\* The number of updates of a state that absorbed the message byte at offset p.
CoverCount(log, p) ==
    LET pieces == InputPieces(log)
    IN  Cardinality({j \in 1 .. Len(pieces) :
                        pieces[j].off <= p /\ p < pieces[j].off + pieces[j].len})

AllLanesDone == \A l \in Lanes : lpc[l] = "done"

C12_LastNodeFlags ==
    /\ \A l \in Lanes :
          /\ (lpc[l] = "final" \/ S[l].fin > 0) => (S[l].last_node <=> l = 7)
          /\ hash[l].tag = "H" => (hash[l].last_node <=> l = 7)
          /\ lpc[l] # "idle" => S[7].last_node
    /\ (pc = "root_final" \/ FS.fin > 0) => FS.last_node
    /\ out.of.tag = "H" => out.of.last_node

C12_Witness ==
    /\ Returned
    /\ result.tag = "list"
    /\ input_size = 1
    /\ S[7].fin = 1
    /\ InputPieces(S[7].log) = <<>>
    /\ hash[7].last_node
    /\ ~hash[6].last_node
    /\ result.of.last_node

\* The fields that the 9 parameter blocks of a call have in common.
CommonFields(P) ==
    /\ P.digest_length = outlen
    /\ P.key_length = key_size
    /\ P.fanout = 8
    /\ P.depth = 2
    /\ P.leaf_length = 0
    /\ P.inner_length = 32

\* C13: the state of leaf l is initialised from a block with node_offset = l and
\* node_depth = 0, the root from a block with node_offset = 0 and node_depth = 1;
\* every block has digest_length = outlen, key_length = the caller's key length,
\* fanout = 8, depth = 2, leaf_length = 0 and inner_length = 32; the blocks of the
\* states initialised so far are pairwise distinct.
C13_ParameterBlocks ==
    /\ \A l \in Lanes :
          S[l].init =>
              /\ CommonFields(S[l].P)
              /\ S[l].P.node_offset = l
              /\ S[l].P.node_depth = 0
              /\ \A m \in Lanes \ {l} : S[m].init => S[m].P # S[l].P
              /\ FS.init => FS.P # S[l].P
    /\ FS.init =>
          /\ CommonFields(FS.P)
          /\ FS.P.node_offset = 0
          /\ FS.P.node_depth = 1
          /\ \A l \in Lanes : S[l].init

C13_Witness ==
    /\ Returned
    /\ result.tag = "list"
    /\ outlen = 1
    /\ key_size = 1
    /\ salt_size = 3
    /\ FS.init
    /\ FS.P.node_depth = 1
    /\ S[5].P.node_offset = 5
    /\ S[5].P.digest_length = 1

\* C14: every lane digest written to hash[l] is a full 32-byte digest, whatever
\* outlen is, the root absorbs 32 bytes from each hash[l], and the digest written
\* to out is the one finalized to the caller's outlen bytes.
C14_TruncationOnlyAtRoot ==
    /\ \A l \in Lanes : hash[l].tag = "H" => hash[l].n = 32
    /\ \A j \in 1 .. Len(FS.log) :
          /\ FS.log[j].len = 32
          /\ FS.log[j].val.tag = "H" => FS.log[j].val.n = 32
    /\ out.of.tag = "H" => out.of.n = outlen
    /\ (Returned /\ result.tag = "list") => (result.of.n = outlen /\ Len(result.list) = outlen)

C14_Witness ==
    /\ Returned
    /\ result.tag = "list"
    /\ outlen = 1
    /\ input_size = 65
    /\ \A l \in Lanes : hash[l].tag = "H" /\ hash[l].n = 32
    /\ result.of.n = 1

LanePhase == pc \in {"lanes", "region"}

\* A step of lane l: it writes S[l] and hash[l] alone, and what it writes is
\* computed from S[l] and a range of the message; the states and digest buffers
\* and locals of the other lanes, the root state, out, the key block and the
\* arguments keep their values.
StepOfLane(l) ==
    /\ lpc[l] \in {"absorb", "final"}
    /\ \A m \in Lanes \ {l} :
          /\ S'[m] = S[m]
          /\ hash'[m] = hash[m]
          /\ lpc'[m] = lpc[m]
          /\ inlen__'[m] = inlen__[m]
          /\ in__'[m] = in__[m]
    /\ FS' = FS
    /\ out' = out
    /\ block' = block
    /\ args' = args
    /\ \/ /\ hash'[l] = hash[l]
          /\ Len(S'[l].log) > 0
          /\ LET n == S'[l].log[Len(S'[l].log)].len
             IN  /\ n \in 1 .. 64
                 /\ S'[l] = blake2s_update(S[l], InputPiece(in__[l], n))
       \/ /\ hash'[l] = Digest(S[l], 32)
          /\ S'[l] = [S[l] EXCEPT !.fin = @ + 1]

\* C15: every step of the lane phase that writes a hash state, a digest buffer,
\* out or the key block is the step of one lane that writes its own S[l] and
\* hash[l] from its own state and the message, whatever the other lanes are doing.
C15_LaneIsolation ==
    [][(LanePhase /\ (S' # S \/ hash' # hash \/ FS' # FS \/ out' # out \/ block' # block))
          => \E l \in Lanes : StepOfLane(l)]_vars

\* Lanes of one team between their updates and their finalization, out of order.
C15_Witness ==
    /\ build = "omp"
    /\ nthreads = 8
    /\ input_size = 577
    /\ lpc[0] = "final"
    /\ lpc[1] = "absorb"
    /\ Len(InputPieces(S[1].log)) = 1
    /\ lpc[7] = "done"
    /\ hash[7].tag = "H"
    /\ hash[0].tag = "none"

\* C16: every update a lane issues on the message, at offset o from the message
\* start and of length n, has n in 1..64 and o + n <= input_size, for every input
\* length and every lane, also when the lane's first offset 64 * l is past the end.
C16_MessageReadsInBounds ==
    \A l \in Lanes : \A j \in 1 .. Len(S[l].log) :
        S[l].log[j].src = "input" =>
            /\ S[l].log[j].len \in 1 .. BLAKE2S_BLOCKBYTES
            /\ S[l].log[j].off >= 0
            /\ S[l].log[j].off + S[l].log[j].len <= input_size

\* A one-byte message: lane 0 has read it, lane 7 ran with its start offset 448
\* past the end and issued no update.
C16_Witness ==
    /\ input_size = 1
    /\ S[0].log = <<InputPiece(0, 1)>>
    /\ lpc[7] = "done"
    /\ in__[7] = 7 * BLAKE2S_BLOCKBYTES
    /\ in__[7] > input_size
    /\ S[7].log = <<>>

\* C17: in every call that passes the argument checks, the parameter block of
\* every leaf and of the root carries the caller's outlen and key length
\* unchanged, and its salt (personalization) field is the zero field of an absent
\* salt (personalization) exactly when the caller's binary is empty: the 8-bit
\* length the callee receives is nonzero exactly when the binary is non-empty.
C17_LengthNarrowing ==
    LET kept(P) ==
            /\ P.digest_length = outlen
            /\ P.key_length = key_size
            /\ (P.salt = Zeros(BLAKE2S_SALTBYTES)) <=> (salt_size = 0)
            /\ (P.personal = Zeros(BLAKE2S_PERSONALBYTES)) <=> (personal_size = 0)
            /\ (U8(salt_size) # 0) <=> (salt_size # 0)
            /\ (U8(personal_size) # 0) <=> (personal_size # 0)
    IN  ValidLengths =>
            /\ \A l \in Lanes : S[l].init => kept(S[l].P)
            /\ FS.init => kept(FS.P)

====
